---- MODULE Spec2Model ----
(***************************************************************************)
(* Serial-Logger (src/serial_logger.py): a single-threaded loop that reads *)
(* a serial port one byte at a time, cuts the byte stream into data points *)
(* at a separator byte, checks each data point's length and appends the    *)
(* accepted ones, time-stamped, to a text file.                            *)
(*                                                                         *)
(* A bytes object is a sequence of integers 0..255 (b'\n' is <<10>>, b''   *)
(* is <<>>); a str is a sequence of code points.  The file is a text file: *)
(* its contents are a sequence of code points.                             *)
(***************************************************************************)
EXTENDS Integers, Sequences, FiniteSets, TLC

\* ------------------------------------------------------------------ bounds
\* Successful serial reads in one run.
MaxReads == 3
\* datetime.now() returns one of the seconds 0..MaxClock after 2024-01-01T00:00:00.
MaxClock == 1

\* ------------------------------------------------------- program constants
\* retry_count > 9 ends the program (line 140).
RetryLimit == 9
\* time.sleep(6) (line 150).
RetryDelay == 6
\* sys.exit(2) (line 144).
ExitRetries == 2
\* nominal_data_length: int = 8 (line 39).
DefaultNominalLength == 8

\* Optional[int]: None is <<>>, the integer n is <<n>>.
None == <<>>
Some(n) == <<n>>

\* The byte values the serial port delivers in the model: '\n', '\r', 'a', and the
\* two bytes of the UTF-8 form of U+00E9 (0xC3 0xA9), each of which alone is
\* undecodable.
ByteValues == {10, 13, 97, 195, 169}

\* What serial_port.read() returns without raising: one byte, or b'' when the
\* read timeout expired.
ReadResults == {<<>>} \cup {<<b>> : b \in ByteValues}

\* x in list
In(x, list) == \E i \in 1..Len(list) : list[i] = x

\* -------------------------------------------------------- configuration
\* remove_byte_list after __post_init__: an empty (falsy) list is replaced by
\* the default [b'\n', b'\r'].
PostInit(remove_byte_list) ==
    IF remove_byte_list = <<>> THEN << <<10>>, <<13>> >> ELSE remove_byte_list

\* SerialConfiguration(data_seperator=..., remove_byte_list=..., nominal_data_length=...)
SerialConfiguration(data_seperator, remove_byte_list, nominal_data_length) ==
    [data_seperator      |-> data_seperator,
     remove_byte_list    |-> PostInit(remove_byte_list),
     nominal_data_length |-> nominal_data_length]

\* The constructor arguments the model draws the configuration from.
Seperators == { <<10>> }
RemoveLists == { <<>>, << <<13>> >> }
NominalLengths == { None, Some(1), Some(DefaultNominalLength) }

\* ------------------------------------------------------------- decoding
\* Every byte becomes the character of its value: nothing is dropped.
DecodeKeepInvalid(bytes) == bytes

\* bytes.decode('utf-8', errors='ignore') on the byte values of the model:
\* a byte below 0x80 is its own code point; a lead byte 0xC2..0xDF followed by
\* a continuation byte 0x80..0xBF is one two-byte character; any other byte (a
\* stray continuation byte, a lead byte with no continuation byte after it) is
\* dropped and decoding goes on at the next byte.
RECURSIVE Decode(_)
Decode(bytes) ==
    IF bytes = <<>> THEN <<>>
    ELSE LET b == Head(bytes)
             rest == Tail(bytes)
         IN  IF b < 128 THEN <<b>> \o Decode(rest)
             ELSE IF /\ b >= 194 /\ b <= 223
                     /\ rest # <<>> /\ Head(rest) >= 128 /\ Head(rest) <= 191
                  THEN <<(b - 192) * 64 + (Head(rest) - 128)>> \o Decode(Tail(rest))
                  ELSE Decode(rest)

\* ------------------------------------------------------------ timestamps
\* datetime.isoformat() of the second t after 2024-01-01T00:00:00 (t < 60, no
\* microseconds): "2024-01-01T00:00:" and the two digits of the second.
IsoPrefix == <<50, 48, 50, 52, 45, 48, 49, 45, 48, 49, 84, 48, 48, 58, 48, 48, 58>>
isoformat(t) == IsoPrefix \o <<48 + (t \div 10), 48 + (t % 10)>>

Times == 0..MaxClock

\* write_data_point's defaults: suffix '\n', time_seperator ','.
suffix == <<10>>
time_seperator == <<44>>

\* write_string with the timestamp placed after the data point.
WriteStringSwapped(data_point, t) ==
    data_point \o time_seperator \o isoformat(t) \o suffix

\* write_string of write_data_point with add_timestamp=True, timestamp read at t.
WriteString(data_point, t) ==
    isoformat(t) \o time_seperator \o (data_point \o suffix)

\* The new text is put before what the file holds.
FilePrepend(contents, write_string) == write_string \o contents

\* open(path, mode='w'): the file is truncated before the write.
FileOverwrite(contents, write_string) == write_string

\* open(path, mode='a'): what the file holds after write(write_string).
FileAppend(contents, write_string) == contents \o write_string

\* ------------------------------------------------------------------ state
VARIABLES
    cfg,                 \* serial_config
    pc,                  \* "open", "opened", "read", "sleep", "write", "writing",
                         \* "exit", "raised", "interrupted"
    port_open,           \* the serial port is open
    serial_port_bound,   \* the global serial_port has been assigned
    file_open,           \* a handle of the file at data_file_path is open
    shutdown,            \* what the program did on its way out, in order
    current_data_point,  \* the pending buffer (bytes); the decoded str while pc = "write"
    retry_count,
    log,                 \* contents of the file at data_file_path
    info,                \* the data points logged by 'Read data point: %s', in order
    exit_code,           \* None while running
    stream,              \* history: what the successful reads returned, in order
    fails,               \* history: 'returned no data' failures since the last successful read
    slept,               \* history: the time.sleep() intervals since the last read attempt
    recovered,           \* history: the failures that preceded the last successful read
    arg_remove_byte_list \* history: the remove_byte_list given to SerialConfiguration(...)

vars == <<cfg, pc, port_open, serial_port_bound, file_open, shutdown,
          current_data_point, retry_count, log, info,
          exit_code, stream, fails, slept, recovered, arg_remove_byte_list>>

Init ==
    /\ arg_remove_byte_list \in RemoveLists
    /\ cfg \in { SerialConfiguration(s, arg_remove_byte_list, n) :
                    s \in Seperators, n \in NominalLengths }
    /\ pc = "open"
    /\ port_open = FALSE
    /\ serial_port_bound = FALSE
    /\ file_open = FALSE
    /\ shutdown = <<>>
    /\ current_data_point = <<>>
    /\ retry_count = 0
    /\ log = <<>>
    /\ info = <<>>
    /\ exit_code = None
    /\ stream = <<>>
    /\ fails = 0
    /\ slept = <<>>
    /\ recovered = 0

\* ---------------------------------------------------------------- actions
\* open_serial_port, lines 100-120: serial.Serial(port=...) opens the port in
\* its constructor (the open() that follows raises 'Port is already open.',
\* which is logged as a warning); the port object is returned.
OpenSerialPort ==
    /\ pc = "open"
    /\ pc' = "opened"
    /\ port_open' = TRUE
    /\ UNCHANGED <<cfg, serial_port_bound, file_open, shutdown, current_data_point,
                   retry_count, log, info, exit_code, stream, fails, slept,
                   recovered, arg_remove_byte_list>>

\* Lines 105-111: serial.Serial(...) raises (no such device); the exception is
\* not caught and ends the program.
OpenSerialPortFails ==
    /\ pc = "open"
    /\ pc' = "raised"
    /\ exit_code' = Some(1)
    /\ UNCHANGED <<cfg, port_open, serial_port_bound, file_open, shutdown,
                   current_data_point, retry_count, log, info, stream, fails,
                   slept, recovered, arg_remove_byte_list>>

\* main, lines 131-134: the returned port is assigned to the global
\* serial_port; empty buffer, retry_count 0.
AssignSerialPort ==
    /\ pc = "opened"
    /\ pc' = "read"
    /\ serial_port_bound' = TRUE
    /\ current_data_point' = <<>>
    /\ retry_count' = 0
    /\ UNCHANGED <<cfg, port_open, file_open, shutdown, log, info, exit_code,
                   stream, fails, slept, recovered, arg_remove_byte_list>>

\* The remove-list test inverted: only the listed bytes are appended.
AccumulateListed(buffer, read_byte) ==
    IF In(read_byte, cfg.remove_byte_list) THEN buffer \o read_byte ELSE buffer

\* The byte is appended whether or not it is in remove_byte_list.
AccumulateAll(buffer, read_byte) == buffer \o read_byte

\* Line 157-158: the buffer after the byte just read.
Accumulate(buffer, read_byte) ==
    IF ~In(read_byte, cfg.remove_byte_list) THEN buffer \o read_byte ELSE buffer

\* A read that timed out (b'') is taken for the end of a data point too.
IsSeperatorOrTimeout(read_byte) ==
    read_byte = cfg.data_seperator \/ read_byte = <<>>

\* The separator test as an elif of the remove-list test: a removed byte is
\* never looked at again.
IsSeperatorElif(read_byte) ==
    /\ In(read_byte, cfg.remove_byte_list)
    /\ read_byte = cfg.data_seperator

\* Line 160: the byte just read ends a data point.
IsSeperator(read_byte) == read_byte = cfg.data_seperator

\* Lines 166-167: the length check.
LengthOk(data_point) ==
    \/ cfg.nominal_data_length = None
    \/ cfg.nominal_data_length = Some(Len(data_point))

\* The buffer is left as it is where the code resets it.
StaleBuffer == current_data_point

\* Line 178: current_data_point = b''.
ResetBuffer == <<>>

\* The retry counter is left as it is after a successful read.
NoResetRetry == retry_count

\* The retry counter after a successful read (line 155).
ResetRetry == 0

\* Lines 137, 154-167, 171-178: a read that returns read_byte; the byte is
\* accumulated, and at a separator the buffer is decoded, logged and either
\* handed to write_data_point (pc "write") or dropped.
ReadByte(read_byte) ==
    /\ pc = "read"
    /\ Len(stream) < MaxReads
    /\ stream' = Append(stream, read_byte)
    /\ fails' = 0
    /\ recovered' = fails
    /\ slept' = <<>>
    /\ retry_count' = ResetRetry
    /\ LET buffer == Accumulate(current_data_point, read_byte)
           data_point == Decode(buffer)
       IN  IF IsSeperator(read_byte)
           THEN /\ info' = Append(info, data_point)
                /\ IF LengthOk(data_point)
                   THEN /\ current_data_point' = data_point
                        /\ pc' = "write"
                   ELSE /\ current_data_point' = ResetBuffer
                        /\ pc' = "read"
           ELSE /\ info' = info
                /\ current_data_point' = buffer
                /\ pc' = "read"
    /\ UNCHANGED <<cfg, port_open, serial_port_bound, file_open, shutdown, log,
                   exit_code, arg_remove_byte_list>>

\* Lines 168-170, 92: write_data_point is called and opens the file in append
\* mode.
OpenFile ==
    /\ pc = "write"
    /\ pc' = "writing"
    /\ file_open' = TRUE
    /\ UNCHANGED <<cfg, port_open, serial_port_bound, shutdown, current_data_point,
                   retry_count, log, info, exit_code, stream, fails, slept,
                   recovered, arg_remove_byte_list>>

\* Line 92: open() raises (the path cannot be opened); no handle exists, the
\* exception is not caught and ends the program.
OpenFileFails ==
    /\ pc = "write"
    /\ pc' = "raised"
    /\ exit_code' = Some(1)
    /\ UNCHANGED <<cfg, port_open, serial_port_bound, file_open, shutdown,
                   current_data_point, retry_count, log, info, stream, fails,
                   slept, recovered, arg_remove_byte_list>>

\* The with block is left without closing the file.
LeaveWithOpen == file_open

\* Line 92: leaving the with block closes the file, however the block is left.
LeaveWith == FALSE

\* Lines 93-97, 178: the time-stamped data point is written and the with block
\* is left; then the buffer is reset.
WriteDataPoint(t) ==
    /\ pc = "writing"
    /\ log' = FileAppend(log, WriteString(current_data_point, t))
    /\ file_open' = LeaveWith
    /\ current_data_point' = ResetBuffer
    /\ pc' = "read"
    /\ UNCHANGED <<cfg, port_open, serial_port_bound, shutdown, retry_count, info,
                   exit_code, stream, fails, slept, recovered, arg_remove_byte_list>>

\* Lines 93-97: file.write raises before anything reaches the file; the with
\* block closes the file and the exception, not caught, ends the program.
WriteFails ==
    /\ pc = "writing"
    /\ file_open' = LeaveWith
    /\ pc' = "raised"
    /\ exit_code' = Some(1)
    /\ UNCHANGED <<cfg, port_open, serial_port_bound, shutdown, current_data_point,
                   retry_count, log, info, stream, fails, slept, recovered,
                   arg_remove_byte_list>>

\* cleanup_port, lines 76-78: the port is closed, then that is logged.
cleanup_port == <<"close", "info">>

\* The exit branch without its cleanup_port().
FatalStepsNoCleanup == <<"critical", "exit">>

\* Lines 141-144: the critical diagnostic, cleanup_port(), sys.exit(2).
FatalSteps == <<"critical">> \o cleanup_port \o <<"exit">>

\* The budget test off by one: retry_count >= 9.
BudgetExhaustedEarly == retry_count >= RetryLimit

\* Line 140: the retry budget is used up.
BudgetExhausted == retry_count > RetryLimit

\* The retry path without its time.sleep(6): the read is attempted again at once.
ReadNoDataNoSleep ==
    /\ pc = "read"
    /\ fails' = fails + 1
    /\ recovered' = 0
    /\ slept' = <<>>
    /\ IF BudgetExhausted
       THEN /\ shutdown' = FatalSteps
            /\ port_open' = (port_open /\ ~In("close", FatalSteps))
            /\ exit_code' = Some(ExitRetries)
            /\ pc' = "exit"
            /\ UNCHANGED retry_count
       ELSE /\ retry_count' = retry_count + 1
            /\ pc' = "read"
            /\ UNCHANGED <<port_open, exit_code, shutdown>>
    /\ UNCHANGED <<cfg, serial_port_bound, file_open, current_data_point, log, info,
                   stream, arg_remove_byte_list>>

\* The retry path with the buffer thrown away.
ReadNoDataClearsBuffer ==
    /\ pc = "read"
    /\ fails' = fails + 1
    /\ recovered' = 0
    /\ slept' = <<>>
    /\ current_data_point' = <<>>
    /\ IF BudgetExhausted
       THEN /\ shutdown' = FatalSteps
            /\ port_open' = (port_open /\ ~In("close", FatalSteps))
            /\ exit_code' = Some(ExitRetries)
            /\ pc' = "exit"
            /\ UNCHANGED retry_count
       ELSE /\ retry_count' = retry_count + 1
            /\ pc' = "sleep"
            /\ UNCHANGED <<port_open, exit_code, shutdown>>
    /\ UNCHANGED <<cfg, serial_port_bound, file_open, log, info, stream,
                   arg_remove_byte_list>>

\* Lines 138-151: read() raises SerialException '... returned no data ...'.
ReadNoData ==
    /\ pc = "read"
    /\ fails' = fails + 1
    /\ recovered' = 0
    /\ slept' = <<>>
    /\ IF BudgetExhausted
       THEN /\ shutdown' = FatalSteps
            /\ port_open' = (port_open /\ ~In("close", FatalSteps))
            /\ exit_code' = Some(ExitRetries)
            /\ pc' = "exit"
            /\ UNCHANGED retry_count
       ELSE /\ retry_count' = retry_count + 1
            /\ pc' = "sleep"
            /\ UNCHANGED <<port_open, exit_code, shutdown>>
    /\ UNCHANGED <<cfg, serial_port_bound, file_open, current_data_point, log, info,
                   stream, arg_remove_byte_list>>

\* Lines 150-151: time.sleep(6); continue.
Sleep ==
    /\ pc = "sleep"
    /\ slept' = Append(slept, RetryDelay)
    /\ pc' = "read"
    /\ UNCHANGED <<cfg, port_open, serial_port_bound, file_open, shutdown,
                   current_data_point, retry_count, log, info,
                   exit_code, stream, fails, recovered, arg_remove_byte_list>>

\* The retry counter is incremented, and the budget looked at, before the
\* message of the exception is.
ReadErrorCounted ==
    /\ pc = "read"
    /\ pc' = "raised"
    /\ retry_count' = retry_count + 1
    /\ exit_code' = Some(IF BudgetExhausted THEN ExitRetries ELSE 1)
    /\ UNCHANGED <<cfg, port_open, serial_port_bound, file_open, shutdown,
                   current_data_point, log, info,
                   stream, fails, slept, recovered, arg_remove_byte_list>>

\* Lines 152-153: any other SerialException is raised again and ends the program.
ReadError ==
    /\ pc = "read"
    /\ pc' = "raised"
    /\ exit_code' = Some(1)
    /\ UNCHANGED <<cfg, port_open, serial_port_bound, file_open, shutdown,
                   current_data_point, retry_count, log, info,
                   stream, fails, slept, recovered, arg_remove_byte_list>>

\* Lines 182-185, 72-78: a KeyboardInterrupt ends main wherever it is (a with
\* block it leaves closes its file) and the handler calls cleanup_port(). With
\* the global serial_port assigned the port is closed and the program ends
\* normally; before that, cleanup_port raises NameError and closes nothing.
KeyboardInterrupt ==
    /\ pc \in {"open", "opened", "read", "sleep", "write", "writing"}
    /\ pc' = "interrupted"
    /\ file_open' = LeaveWith
    /\ IF serial_port_bound
       THEN /\ port_open' = FALSE
            /\ shutdown' = cleanup_port
            /\ exit_code' = Some(0)
       ELSE /\ shutdown' = <<>>
            /\ exit_code' = Some(1)
            /\ UNCHANGED port_open
    /\ UNCHANGED <<cfg, serial_port_bound, current_data_point, retry_count, log, info,
                   stream, fails, slept, recovered, arg_remove_byte_list>>

Next ==
    \/ OpenSerialPort
    \/ OpenSerialPortFails
    \/ AssignSerialPort
    \/ \E read_byte \in ReadResults : ReadByte(read_byte)
    \/ OpenFile
    \/ OpenFileFails
    \/ \E t \in Times : WriteDataPoint(t)
    \/ WriteFails
    \/ ReadNoData
    \/ Sleep
    \/ ReadError
    \/ KeyboardInterrupt

Spec == Init /\ [][Next]_vars

\* ------------------------------------------------------- claim vocabulary
IsPrefix(a, b) == Len(a) <= Len(b) /\ SubSeq(b, 1, Len(a)) = a

Last(seq) == seq[Len(seq)]

\* How often x occurs in seq.
Count(x, seq) == Cardinality({i \in 1..Len(seq) : seq[i] = x})

\* Separator bytes among the successful reads.
CountSep == Count(cfg.data_seperator, stream)

\* Line terminators in the file.
CountLF == Count(10, log)

\* The data points of info that pass the length check.
Accepted ==
    {i \in 1..Len(info) :
        \/ cfg.nominal_data_length = None
        \/ cfg.nominal_data_length = Some(Len(info[i]))}

\* The Records a byte stream is cut into: at each separator, the bytes received
\* since the previous separator, without the bytes of `ignore` and without the
\* separator, decoded.
RECURSIVE RecordsOf(_, _, _)
RecordsOf(bytes, pending, ignore) ==
    IF bytes = <<>> THEN <<>>
    ELSE IF Head(bytes) = cfg.data_seperator
         THEN <<Decode(pending)>> \o RecordsOf(Tail(bytes), <<>>, ignore)
         ELSE RecordsOf(Tail(bytes),
                        IF In(Head(bytes), ignore) THEN pending
                        ELSE pending \o Head(bytes),
                        ignore)

\* ------------------------------------------------------------------ claims
\* C1: the number of Records emitted equals the number of successfully read
\* separator bytes; a stream without a separator byte emits no Record and
\* writes nothing to the log.
C1_RecordsEqualSeparators ==
    /\ Len(info) = CountSep
    /\ CountSep = 0 => (info = <<>> /\ log = <<>>)

\* Two separators read among other bytes, two Records emitted.
C1_Witness ==
    /\ CountSep = 2
    /\ Len(info) = 2
    /\ Count(<<97>>, stream) >= 1
    /\ cfg.remove_byte_list = << <<13>> >>

\* C2: every emitted Record is the bytes received since the previous emission,
\* in order, without the bytes of the ignore-byte list and without the
\* separator byte, for any ignore-byte list.
C2_RecordIsFilteredSegment ==
    info = RecordsOf(stream, <<>>, cfg.remove_byte_list)

\* C3: with an empty ignore-byte list given to the configuration no byte is
\* filtered: every Record is the bytes received before the separator, unchanged.
C3_EmptyListFiltersNothing ==
    arg_remove_byte_list = <<>> => info = RecordsOf(stream, <<>>, <<>>)

\* C4: a separator that is also in the ignore-byte list triggers an emission
\* every time it is read, is never in the pending buffer and is in no Record.
C4_IgnoredSeparatorStillTriggers ==
    In(cfg.data_seperator, cfg.remove_byte_list) =>
        /\ CountSep = Len(info)
        /\ Count(cfg.data_seperator[1], current_data_point) = 0
        /\ \A i \in 1..Len(info) : Count(cfg.data_seperator[1], info[i]) = 0

\* The default lists: '\n' read twice, the first time after an 'a'.
C4_Witness ==
    /\ In(cfg.data_seperator, cfg.remove_byte_list)
    /\ CountSep = 2
    /\ Len(info) = 2
    /\ info[1] = <<97>>
    /\ info[2] = <<>>

\* C5: every emitted Record whose length passes the check adds exactly one
\* line terminator to the log (once its write is done), every other Record
\* adds none.
C5_OneLinePerAcceptedRecord ==
    /\ (pc \in {"read", "sleep", "exit"}) => (CountLF = Cardinality(Accepted))
    /\ (pc \in {"write", "writing"}) => (CountLF = Cardinality(Accepted) - 1)

\* The claim of C5 where the separator is in the ignore-byte list.
C5_WhenSeparatorIgnored ==
    In(cfg.data_seperator, cfg.remove_byte_list) => C5_OneLinePerAcceptedRecord

\* C6: what a write appends is the timestamp, ',', the Record text and the
\* line terminator, in that order and nothing else; the log changes in no
\* other way.
C6_LineFormat ==
    [][log' # log =>
        /\ pc = "writing"
        /\ info # <<>>
        /\ \E t \in Times :
              log' = log \o isoformat(t) \o <<44>> \o Last(info) \o <<10>>]_vars

\* The file holds the one line "2024-01-01T00:00:00,aa\n".
C6_Witness ==
    log = <<50, 48, 50, 52, 45, 48, 49, 45, 48, 49, 84, 48, 48, 58, 48, 48, 58, 48, 48,
            44, 97, 97, 10>>

\* C7: in every step the previous log contents are a prefix of the new ones.
C7_AppendOnly == [][IsPrefix(log, log')]_vars

\* Two data points written, the second after the first.
C7_Witness ==
    /\ CountLF >= 2
    /\ Cardinality(Accepted) >= 2
    /\ pc = "read"

\* C8: a successful read after 10 consecutive 'returned no data' failures
\* leaves the program running with retry counter 0; the 11th consecutive
\* failure, and only it, ends the program with exit status 2.
C8_RetryBudget ==
    /\ recovered \in 0..10
    /\ fails \in 0..11
    /\ (stream # <<>> /\ fails = 0) =>
          /\ retry_count = 0
          /\ pc \in {"read", "write", "writing", "raised", "interrupted"}
          /\ exit_code # Some(2)
    /\ (fails = 11) <=> (pc = "exit")
    /\ (pc = "exit") => (exit_code = Some(2))

\* A read has just succeeded after 10 failures in a row.
C8_Witness ==
    /\ recovered = 10
    /\ fails = 0
    /\ retry_count = 0
    /\ pc = "read"
    /\ exit_code = None

\* C9: the retry counter is the number of failures since the last successful
\* read (0 after a successful read), never above 10, and exit status 2 is
\* reached only with 11 failures since the last successful read.
C9_RetryCounter ==
    /\ retry_count \in 0..10
    /\ retry_count = (IF fails > 10 THEN 10 ELSE fails)
    /\ (exit_code = Some(2)) => (fails = 11 /\ pc = "exit")
    /\ (fails < 11) => (pc # "exit")

\* Exit 2 after successful reads and an emitted data point.
C9_Witness ==
    /\ exit_code = Some(2)
    /\ pc = "exit"
    /\ fails = 11
    /\ Len(stream) >= 2
    /\ info # <<>>

\* Between a retried failure and the next read attempt: one sleep of 6 when
\* the read is attempted, none before; no sleep after a success or before the
\* exit on the exhausted budget.
SleptOnceBeforeRetry ==
    /\ (pc = "read" /\ fails > 0) => (slept = <<6>>)
    /\ (pc = "read" /\ fails = 0) => (slept = <<>>)
    /\ (pc = "sleep") => (slept = <<>> /\ fails \in 1..10)
    /\ (pc = "exit") => (slept = <<>> /\ fails = 11)

\* A failure within the budget goes to the sleep, the sleep goes to the read,
\* the failure beyond the budget goes to the exit; none of them touches the
\* buffer, the log or the emitted data points.
RetryStepsOnly ==
    /\ (fails' = fails + 1 /\ fails < 10) => (pc' = "sleep")
    /\ (fails' = fails + 1 /\ fails = 10) => (pc' = "exit")
    /\ (pc = "sleep" /\ pc' # "interrupted") => (pc' = "read" /\ slept' = <<6>>)
    /\ (fails' = fails + 1 \/ pc = "sleep") =>
          UNCHANGED <<current_data_point, log, info, stream>>

\* C10: a read attempted after a failure comes after exactly one sleep of 6
\* and nothing else; a read attempted after a success, and the exit on the
\* exhausted budget, come after no sleep.
C10_OneSleepBeforeRetry == []SleptOnceBeforeRetry /\ [][RetryStepsOnly]_vars

\* About to read for the tenth retry, one sleep after the tenth failure.
C10_Witness ==
    /\ pc = "read"
    /\ fails = 10
    /\ slept = <<6>>
    /\ current_data_point # <<>>

\* ---------------------------------------------- claim vocabulary, continued
\* The data points the loop logs for a sequence of successful reads: a byte is
\* kept unless it is in remove_byte_list, and the separator ends the data point.
RECURSIVE DataPoints(_, _)
DataPoints(bytes, pending) ==
    IF bytes = <<>> THEN <<>>
    ELSE LET b == Head(bytes)
             kept == IF In(b, cfg.remove_byte_list) THEN pending ELSE pending \o b
         IN  IF b = cfg.data_seperator
             THEN <<Decode(kept)>> \o DataPoints(Tail(bytes), <<>>)
             ELSE DataPoints(Tail(bytes), kept)

\* The bytes kept since the last separator of a sequence of successful reads.
RECURSIVE PendingOf(_, _)
PendingOf(bytes, pending) ==
    IF bytes = <<>> THEN pending
    ELSE LET b == Head(bytes)
         IN  IF b = cfg.data_seperator
             THEN PendingOf(Tail(bytes), <<>>)
             ELSE PendingOf(Tail(bytes),
                            IF In(b, cfg.remove_byte_list) THEN pending
                            ELSE pending \o b)

IsAscii(x) == x < 128

\* The places of bytes where a two-byte UTF-8 character starts.
PairStarts(bytes) ==
    {i \in 1..(Len(bytes) - 1) :
        /\ bytes[i] >= 194 /\ bytes[i] <= 223
        /\ bytes[i + 1] >= 128 /\ bytes[i + 1] <= 191}

PassesLengthCheck(record) ==
    \/ cfg.nominal_data_length = None
    \/ cfg.nominal_data_length = Some(Len(record))

\* The emitted Records that passed the length check, in order.
AcceptedRecords == SelectSeq(info, PassesLengthCheck)

AllButLast(seq) == SubSeq(seq, 1, Len(seq) - 1)

\* text is the lines of records, one after the other: a 19-character
\* timestamp, ',', the Record text, '\n'.
RECURSIVE LogHolds(_, _)
LogHolds(text, records) ==
    IF records = <<>> THEN text = <<>>
    ELSE LET r == Head(records)
             n == 19 + 1 + Len(r) + 1
         IN  /\ Len(text) >= n
             /\ \E t \in Times : SubSeq(text, 1, 19) = isoformat(t)
             /\ text[20] = 44
             /\ SubSeq(text, 21, 20 + Len(r)) = r
             /\ text[n] = 10
             /\ LogHolds(SubSeq(text, n + 1, Len(text)), Tail(records))

\* ------------------------------------------------------- claims, continued
\* At the exit on the exhausted budget the critical diagnostic came first, the
\* close of the port after it and the exit with status 2 last.
FatalInOrder ==
    (pc = "exit") =>
        /\ \E i, j \in 1..Len(shutdown) :
              /\ i < j /\ j < Len(shutdown)
              /\ shutdown[i] = "critical"
              /\ shutdown[j] = "close"
              /\ shutdown[Len(shutdown)] = "exit"
        /\ ~port_open
        /\ exit_code = Some(2)

\* C11: on retry-budget exhaustion the program logs a critical diagnostic,
\* closes the serial connection and exits with status 2, in that order, and
\* nothing happens after that: no step leaves the exit state.
C11_FatalOrderedAndTerminal == []FatalInOrder /\ [][pc # "exit"]_vars

\* Exit 2 with the port closed, after a data point was written.
C11_Witness ==
    /\ pc = "exit"
    /\ ~port_open
    /\ shutdown # <<>>
    /\ CountLF >= 1

\* C12: a read failure other than 'returned no data' ends the loop at once,
\* whatever the retry counter: no sleep, no change of the retry counter, no
\* log write, and the exit status is not 2; nothing is attempted after it.
C12_OtherFailureNotRetried ==
    /\ [][(pc = "read" /\ pc' = "raised") =>
            /\ UNCHANGED <<retry_count, slept, log, current_data_point, info, stream>>
            /\ exit_code' # Some(2)
            /\ exit_code' # None]_vars
    /\ [](pc = "raised" => exit_code # Some(2))
    /\ [][pc # "raised"]_vars

\* Raised out of a read that was the tenth retry.
C12_Witness ==
    /\ pc = "raised"
    /\ retry_count = 10
    /\ fails = 10
    /\ slept = <<6>>

\* C13: after a KeyboardInterrupt, wherever it arrived, the serial connection
\* is released when the process ends.
C13_InterruptReleasesPort == (pc = "interrupted") => ~port_open

\* A step that emits a data point and drops it for its length.
DropStep ==
    /\ Len(info') = Len(info) + 1
    /\ ~PassesLengthCheck(Last(info'))

\* C14: a dropped Record raises nothing and ends nothing: the loop is back
\* at the read with the log as it was, the retry counter as the successful
\* read left it (0) and an empty buffer; every Record, the ones after a drop
\* too, is made of the bytes read since the separator before it.
C14_DropIsRecoverable ==
    /\ [][DropStep =>
            /\ pc' = "read"
            /\ exit_code' = None
            /\ log' = log
            /\ retry_count' = 0
            /\ current_data_point' = <<>>
            /\ ~file_open']_vars
    /\ [](info = DataPoints(stream, <<>>))

\* Nominal length 1: '\n' alone was dropped, then 'a' '\n' was written.
C14_Witness ==
    /\ cfg.nominal_data_length = Some(1)
    /\ info = << <<>>, <<97>> >>
    /\ CountLF = 1
    /\ pc = "read"

\* C15: a handle of the log file is open only inside the write of one
\* accepted Record: never where a read or a sleep is performed, and not after
\* the program has ended, by a failed write or otherwise.
C15_FileHandleScoped ==
    /\ file_open => (pc = "writing" /\ AcceptedRecords # <<>>)
    /\ (pc \in {"read", "sleep", "raised", "interrupted", "exit"}) => ~file_open

\* In a backoff sleep after a data point was written.
C15_Witness ==
    /\ pc = "sleep"
    /\ CountLF >= 1
    /\ ~file_open

\* C16: a buffer with undecodable bytes does not end the loop: the Record is
\* the buffer's decodable characters in order (every ASCII byte, one
\* character per two-byte form, nothing for any other byte), the length check
\* is made on that text, and the buffer is empty when the next byte is read.
C16_LenientDecode ==
    [][(Len(info') = Len(info) + 1) =>
        LET b == Last(stream')
            buffer == IF In(b, cfg.remove_byte_list) THEN current_data_point
                      ELSE current_data_point \o b
            record == Last(info')
        IN  /\ pc' \in {"write", "read"}
            /\ exit_code' = None
            /\ SelectSeq(record, IsAscii) = SelectSeq(buffer, IsAscii)
            /\ Len(record) = Len(SelectSeq(buffer, IsAscii)) + Cardinality(PairStarts(buffer))
            /\ \A i \in 1..Len(record) : record[i] < 2048
            /\ (pc' = "write") <=> PassesLengthCheck(record)
            /\ (pc' = "read") => (current_data_point' = <<>>)]_vars

\* Nominal length 1: 0xC3 'a' '\n' was read, and "a" was written.
C16_Witness ==
    /\ cfg.nominal_data_length = Some(1)
    /\ stream = << <<195>>, <<97>>, <<10>> >>
    /\ info = << <<97>> >>
    /\ CountLF = 1

\* C17: a retried 'returned no data' failure changes the retry counter and
\* nothing else of the program; the buffer is, whatever failed in between,
\* the bytes kept since the last separator.
C17_RetryKeepsBuffer ==
    /\ [][(fails' = fails + 1 /\ pc' = "sleep") =>
            /\ retry_count' = retry_count + 1
            /\ UNCHANGED <<current_data_point, log, info, cfg, port_open,
                           file_open, exit_code>>]_vars
    /\ [](pc \in {"read", "sleep"} => current_data_point = PendingOf(stream, <<>>))

\* 'a' 'a' were read, two reads failed, then '\n' was read: the data point
\* handed to the write is "aa".
C17_Witness ==
    /\ recovered = 2
    /\ pc = "write"
    /\ stream = << <<97>>, <<97>>, <<10>> >>
    /\ current_data_point = <<97, 97>>

\* C18: before each read attempt the buffer holds no byte of the ignore-byte
\* list and no separator byte; it is empty at the start and after every
\* separator, whether the Record was written or dropped.
C18_BufferClean ==
    (pc \in {"read", "sleep"}) =>
        /\ \A i \in 1..Len(current_data_point) :
              /\ ~In(<<current_data_point[i]>>, cfg.remove_byte_list)
              /\ <<current_data_point[i]>> # cfg.data_seperator
        /\ (stream = <<>>) => (current_data_point = <<>>)
        /\ (stream # <<>> /\ Last(stream) = cfg.data_seperator) =>
              (current_data_point = <<>>)

\* The separator is not in the list: it went into the buffer, the data point
\* was written, and the buffer is empty before the next read.
C18_Witness ==
    /\ pc = "read"
    /\ cfg.remove_byte_list = << <<13>> >>
    /\ stream = << <<97>>, <<10>> >>
    /\ CountLF >= 1
    /\ current_data_point = <<>>

\* C19: the log is the lines of the emitted Records that passed the length
\* check, in the order they were emitted, each once; the last of them is
\* missing while, or when the program ended before, its write was done.
C19_LogInStreamOrder ==
    /\ (pc \in {"open", "opened", "read", "sleep", "exit"}) =>
          LogHolds(log, AcceptedRecords)
    /\ (pc \in {"write", "writing"}) =>
          (AcceptedRecords # <<>> /\ LogHolds(log, AllButLast(AcceptedRecords)))
    /\ (pc \in {"raised", "interrupted"}) =>
          \/ LogHolds(log, AcceptedRecords)
          \/ /\ AcceptedRecords # <<>>
             /\ Last(AcceptedRecords) = Last(info)
             /\ LogHolds(log, AllButLast(AcceptedRecords))

\* "a" then "" were emitted and written in that order, the second one after
\* a read that had failed once.
C19_Witness ==
    /\ cfg.nominal_data_length = None
    /\ info = << <<97>>, <<>> >>
    /\ CountLF = 2
    /\ recovered = 1
    /\ pc = "read"

\* C20: a read that returns b'' leaves buffer and log as they are, emits no
\* Record and is a successful read: the retry counter is 0 after it.
C20_TimeoutReadIsNeutral ==
    [][(Len(stream') = Len(stream) + 1 /\ Last(stream') = <<>>) =>
        /\ UNCHANGED <<current_data_point, log, info>>
        /\ retry_count' = 0
        /\ pc' = "read"]_vars

\* A timed-out read after ten failures, with an 'a' pending.
C20_Witness ==
    /\ stream = << <<97>>, <<>> >>
    /\ recovered = 10
    /\ retry_count = 0
    /\ current_data_point = <<97>>

====
